---- MODULE Spec2Model ----
(***************************************************************************)
(* Model of sync_module.py: the session store (cookie file), the captcha   *)
(* login loop, the task query, and the worker pool that reconciles every   *)
(* outstanding summary row against the remote API.                          *)
(*                                                                          *)
(* Text is a sequence of tokens; time is counted in hours (local time),    *)
(* a calendar date d is the hour d * HoursPerDay.                          *)
(***************************************************************************)
EXTENDS Bags, FiniteSets, Integers, Sequences, TLC

(* ------------------------------ bounds --------------------------------- *)
MaxRows == 2

MaxTotal == 2

MaxTasks == 2

MaxDup == 2

MaxRuns == 2

(* ------------------------- program constants --------------------------- *)
MAX_WORKERS == 5

max_attempts == 10

HoursPerDay == 24

UtcOffset == 8

Entities == {"A", "B"}

(* the date window of the summary row of each entity (begin day, end day) *)
WindowOf == [e \in Entities |-> IF e = "A" THEN <<1, 1>> ELSE <<1, 2>>]

(* --------------------------- session store ----------------------------- *)
NoFile == [exists |-> FALSE, text |-> <<>>]

None == [some |-> FALSE, text |-> <<>>]

Some(s) == [some |-> TRUE, text |-> s]

IsSpace(c) == c = " "

RECURSIVE lstrip(_)
lstrip(s) == IF s # <<>> /\ IsSpace(Head(s)) THEN lstrip(Tail(s)) ELSE s

RECURSIVE rstrip(_)
rstrip(s) ==
    IF s # <<>> /\ IsSpace(s[Len(s)]) THEN rstrip(SubSeq(s, 1, Len(s) - 1)) ELSE s

strip(s) == rstrip(lstrip(s))

(* save_cookie: the file holds the string; on IOError it is left as it was *)
save_cookie(file, cookie_str, ioOk) ==
    IF ioOk THEN [exists |-> TRUE, text |-> cookie_str] ELSE file

(* get_cookie: None when the file is missing or unreadable, else stripped *)
get_cookie(file, ioOk) ==
    IF ~file.exists THEN None
    ELSE IF ioOk THEN Some(strip(file.text)) ELSE None

(* clear_cookies: the file is removed when it exists *)
clear_cookies(file) == IF file.exists THEN NoFile ELSE file

(* slip: "is not None" in place of truthiness, "" passes *)
Truthy_notNone(c) == c.some

(* Python truthiness of an Optional[str]: None and "" are falsy *)
Truthy(c) == c.some /\ c.text # <<>>

(* slip: a separator after every pair, the last one included *)
RECURSIVE JoinCookies_trailing(_)
JoinCookies_trailing(cookies) ==
    IF cookies = <<>> THEN <<>>
    ELSE <<cookies[1].name, "=", cookies[1].value, "; ">>
         \o JoinCookies_trailing(Tail(cookies))

(* '; '.join(name=value for each cookie) *)
RECURSIVE JoinCookies(_)
JoinCookies(cookies) ==
    IF cookies = <<>> THEN <<>>
    ELSE IF Len(cookies) = 1
         THEN <<cookies[1].name, "=", cookies[1].value>>
         ELSE <<cookies[1].name, "=", cookies[1].value, "; ">>
              \o JoinCookies(Tail(cookies))

(* cookie jars the browsing context may hold after a login *)
Jars ==
    { <<>>,
      <<[name |-> "sid", value |-> "x"]>>,
      <<[name |-> "sid", value |-> "x"], [name |-> "tok", value |-> "y"]>> }

(* contents a cookie file may have when the run starts *)
StartFiles ==
    { NoFile,
      [exists |-> TRUE, text |-> <<" ">>],
      [exists |-> TRUE, text |-> <<"sid", "=", "x", " ">>] }

(* ------------------------------ storage -------------------------------- *)
NULL == "NULL"

getEmpIdnByInsuLicence(lic) == IF lic = "A" THEN "idnA" ELSE "idnB"

(* a calendar date compared with a timestamp column is that day's midnight *)
DateToTime(d) == d * HoursPerDay

(* DATEDIFF(.., DATEADD(hour, -8, t)): local time to epoch *)
ToEpoch(t) == t - UtcOffset

FromEpoch(t) == t + UtcOffset

(* the row fetch_tasks selects for a summary row *)
TaskOf(e, row) ==
    [ salesregid        |-> e,
      finish_start_date |-> ToEpoch(DateToTime(row.dTrainBeginDate)),
      finish_end_date   |-> ToEpoch(DateToTime(row.dTrainEndDate + 1)) - 1,
      dTrainBeginDate   |-> row.dTrainBeginDate,
      dTrainEndDate     |-> row.dTrainEndDate,
      nTotalComplete    |-> row.nTotalComplete,
      cClassYM          |-> row.cClassYM,
      cRegNumber        |-> row.cRegNumber ]

(* WHERE cRegNumber IS NOT NULL AND nTotalComplete <> nShouldComplete *)
Outstanding(row) ==
    row.cRegNumber # NULL /\ row.nTotalComplete # row.nShouldComplete

Repeat(x, n) == [i \in 1..n |-> x]

(* the JOIN yields one task per matching active roster row; the query has  *)
(* no ORDER BY, and every queued task may be the next one a free worker    *)
(* takes, so the list is kept in one canonical order                       *)
fetch_rows(sm, ro) ==
    LET copies(e) == IF Outstanding(sm[e]) THEN ro[e] ELSE 0
    IN  Repeat(TaskOf("A", sm["A"]), copies("A"))
        \o Repeat(TaskOf("B", sm["B"]), copies("B"))

(* DELETE ... WHERE cInsuLicense = %s AND dChgDate >= %s AND dChgDate <= %s *)
(* slip: the WHERE clause lost its cInsuLicense condition *)
DeleteMatches_anyLicense(r, item) ==
    /\ r.dChgDate >= DateToTime(item.dTrainBeginDate)
    /\ r.dChgDate <= DateToTime(item.dTrainEndDate)

DeleteMatches(r, item) ==
    /\ r.cInsuLicense = item.salesregid
    /\ r.dChgDate >= DateToTime(item.dTrainBeginDate)
    /\ r.dChgDate <= DateToTime(item.dTrainEndDate)

delete_details(dt, item) ==
    LET keep == {r \in DOMAIN dt : ~DeleteMatches(r, item)}
    IN  [r \in keep |-> dt[r]]

(* the VALUES tuple insert_details builds for one fetched row *)
DetailRow(item, row) ==
    [ cClassYM     |-> item.cClassYM,
      cInsuLicense |-> item.salesregid,
      cEmpIdn      |-> getEmpIdnByInsuLicence(item.salesregid),
      cCourse      |-> row.fullname,
      dChgDate     |-> row.finish_time ]

insert_one(dt, item, row) == dt (+) SetToBag({DetailRow(item, row)})

(* slip: the UPDATE refreshes the date and leaves the total as it was *)
update_summary_dateOnly(sm, item, total, now) ==
    [e \in DOMAIN sm |->
        IF e = item.salesregid THEN [sm[e] EXCEPT !.dRefreshDate = now]
        ELSE sm[e]]

(* UPDATE ... SET nTotalComplete = %s, dRefreshDate = GETDATE() WHERE key *)
update_summary(sm, item, total, now) ==
    [e \in DOMAIN sm |->
        IF /\ e = item.salesregid
           /\ sm[e].dTrainBeginDate = item.dTrainBeginDate
           /\ sm[e].dTrainEndDate = item.dTrainEndDate
        THEN [sm[e] EXCEPT !.nTotalComplete = total, !.dRefreshDate = now]
        ELSE sm[e]]

(* ------------------------------- state --------------------------------- *)
VARIABLES
    cookieFile,     \* COOKIE_FILE on disk
    disk,           \* "ok", or "flaky": opening COOKIE_FILE may raise IOError
    mainpc,         \* position of main()
    cookie_str,     \* main's local cookie_str, captured by the pool's lambda
    attempt,        \* attempts login_and_save_cookie has started
    loginResult,    \* "none" until login_and_save_cookie returns, then "ok" / "fail"
    roster,         \* active vInsuSalesEmpX rows joined to each summary row
    summary,        \* InsuExternalTrainingX, one row per entity
    detail,         \* InsuExternalTrainingY, a bag of rows
    remote,         \* what the remote API holds for each entity
    clock,          \* GETDATE(), counted in committed summary updates
    tasks,          \* the list fetch_tasks returned
    pc,             \* per task: position inside process_single_task / sync_data
    ins,            \* per task: rows executemany has inserted so far
    result,         \* per task: value process_single_task returned
    tally,          \* <<success_count, total>> once main has summed up
    event,          \* history: the environment's input to the last step
    nFailed,        \* history: login attempts that returned False
    nFaults,        \* history: tasks the environment made fail
    nLogins,        \* history: calls of login_and_save_cookie in this run
    runsLeft,       \* invocations of the batch job still to come
    runStart,       \* history: the tables when this run started
    prevStart,      \* history: the tables when the previous run started
    prevResult      \* history: the results of the previous run

vars == << cookieFile, disk, mainpc, cookie_str, attempt, loginResult, roster, summary,
           detail, remote, clock, tasks, pc, ins, result, tally, event, nFailed,
           nFaults, nLogins, runsLeft, runStart, prevStart, prevResult >>

sessionVars == << cookieFile, cookie_str, attempt, loginResult, nFailed >>

dbVars == << summary, detail, clock >>

poolVars == << tasks, pc, ins, result, tally, nFaults >>

runVars == << runsLeft, runStart, prevStart, prevResult >>

envVars == << roster, remote, disk, runVars, nLogins >>

(* how an open() of COOKIE_FILE can go *)
IoResults == IF disk = "flaky" THEN BOOLEAN ELSE {TRUE}

Ev(op, t, kind, status) ==
    [op |-> op, task |-> t, kind |-> kind, status |-> status, jar |-> <<>>,
     cookie |-> <<>>]

(* ------------------------- initial conditions -------------------------- *)
SummaryRow(e, n, reg) ==
    [ dTrainBeginDate |-> WindowOf[e][1],
      dTrainEndDate   |-> WindowOf[e][2],
      nTotalComplete  |-> n,
      nShouldComplete |-> MaxTotal,
      cClassYM        |-> "2401",
      cRegNumber      |-> reg,
      dRefreshDate    |-> 0 ]

SummaryRows(e) ==
    {SummaryRow(e, n, "R") : n \in 0..MaxTotal} \cup {SummaryRow(e, 0, NULL)}

(* completion records the portal can report for a window: the first hour  *)
(* of the begin day and the last hour of the end day                       *)
PortalRows(e) ==
    LET t == TaskOf(e, SummaryRow(e, 0, "R"))
    IN  { [fullname |-> "c1", finish_time |-> FromEpoch(t.finish_start_date)],
          [fullname |-> "c2", finish_time |-> FromEpoch(t.finish_end_date)] }

RECURSIVE RowLists(_, _)
RowLists(e, n) ==
    IF n = 0 THEN {<<>>}
    ELSE RowLists(e, n - 1)
         \cup {Append(l, r) : l \in {x \in RowLists(e, n - 1) : Len(x) = n - 1},
                              r \in PortalRows(e)}

Snapshots(e) == [total : 0..MaxTotal, rows : RowLists(e, MaxRows)]

(* detail rows an earlier sync or another writer left behind *)
OldRow(e, course, t) ==
    [ cClassYM |-> "2401", cInsuLicense |-> e,
      cEmpIdn |-> getEmpIdnByInsuLicence(e), cCourse |-> course, dChgDate |-> t ]

OldRows(e) ==
    { OldRow(e, "c1", DateToTime(WindowOf[e][1])),
      OldRow(e, "c2", DateToTime(WindowOf[e][2] + 1) - 1),
      OldRow(e, "c0", DateToTime(WindowOf[e][2] + 1)) }

RosterOK(ro) == ro["A"] + ro["B"] <= MaxTasks

HasTask(sm, ro, e) == Outstanding(sm[e]) /\ ro[e] > 0

(* the portal's data matters only for entities that get a task *)
NoSnapshot == [total |-> 0, rows |-> <<>>]

PriorDetails ==
    {SetToBag(a \cup b) : a \in SUBSET OldRows("A"), b \in {{}, OldRows("B")}}

Newest(e) == CHOOSE r \in PortalRows(e) :
                 \A q \in PortalRows(e) : q.finish_time <= r.finish_time

(* snapshots whose total counts their rows: distinct records, oldest       *)
(* first, up to the one of the window's last hour                          *)
CountedSnapshots(e) ==
    {s \in Snapshots(e) :
        /\ s.total = Len(s.rows)
        /\ \A i \in 1..(Len(s.rows) - 1) :
              s.rows[i].finish_time < s.rows[i + 1].finish_time
        /\ s.rows # <<>> => s.rows[Len(s.rows)] = Newest(e)}

UsableFile == [exists |-> TRUE, text |-> <<"sid", "=", "x", " ">>]

(* a table with one row (or portal snapshot) per entity *)
PerEntity(a, b) == [e \in Entities |-> IF e = "A" THEN a ELSE b]

(* a run that starts with any cookie file, one task over a small database *)
InitSession ==
    /\ cookieFile \in StartFiles
    /\ disk \in {"ok", "flaky"}
    /\ runsLeft = 0
    /\ roster = PerEntity(1, 0)
    /\ summary = PerEntity(SummaryRow("A", 0, "R"), SummaryRow("B", 0, "R"))
    /\ detail = SetToBag(OldRows("A"))
    /\ \E n \in {0, 1}, rows \in RowLists("A", 1) :
          remote = PerEntity([total |-> n, rows |-> rows], NoSnapshot)

(* a run with a usable cookie file and at most one task, over any data *)
InitOne ==
    /\ cookieFile = UsableFile
    /\ disk = "ok"
    /\ runsLeft = 0
    /\ \E n \in 0..1 : roster = PerEntity(n, 0)
    /\ \E row \in SummaryRows("A") :
          summary = PerEntity(row, SummaryRow("B", 0, "R"))
    /\ detail \in PriorDetails
    /\ \E snap \in Snapshots("A") : remote = PerEntity(snap, NoSnapshot)

(* a run with a usable cookie file and several tasks for the pool *)
InitPool ==
    /\ cookieFile = UsableFile
    /\ disk = "ok"
    /\ runsLeft = 0
    /\ roster \in {ro \in [Entities -> 0..MaxDup] : RosterOK(ro)}
    /\ \E na, nb \in {0, MaxTotal} :
          summary = PerEntity(SummaryRow("A", na, "R"), SummaryRow("B", nb, "R"))
    /\ detail \in {EmptyBag, SetToBag(OldRows("A") \cup OldRows("B"))}
    /\ \E sa \in CountedSnapshots("A") \cup {NoSnapshot},
          sb \in CountedSnapshots("B") \cup {NoSnapshot} :
          /\ ~HasTask(summary, roster, "A") => sa = NoSnapshot
          /\ ~HasTask(summary, roster, "B") => sb = NoSnapshot
          /\ remote = PerEntity(sa, sb)

(* the batch job invoked several times in a row over one task; the        *)
(* portal's data stays as it is                                            *)
InitRerun ==
    /\ cookieFile = UsableFile
    /\ disk = "ok"
    /\ runsLeft = MaxRuns - 1
    /\ roster = PerEntity(1, 0)
    /\ summary = PerEntity(SummaryRow("A", 0, "R"), SummaryRow("B", 0, "R"))
    /\ detail \in {EmptyBag, SetToBag(OldRows("A"))}
    /\ \E snap \in Snapshots("A") : remote = PerEntity(snap, NoSnapshot)

Tables == [summary |-> summary, detail |-> detail]

Init ==
    /\ (InitSession \/ InitOne \/ InitPool \/ InitRerun)
    /\ nLogins = 0
    /\ runStart = Tables
    /\ prevStart = Tables
    /\ prevResult = <<>>
    /\ mainpc = "start"
    /\ cookie_str = None
    /\ attempt = 0
    /\ loginResult = "none"
    /\ clock = 0
    /\ tasks = <<>>
    /\ pc = <<>>
    /\ ins = <<>>
    /\ result = <<>>
    /\ tally = <<>>
    /\ event = Ev("init", 0, "none", 0)
    /\ nFailed = 0
    /\ nFaults = 0

(* ------------------------------- login --------------------------------- *)
(* how one _attempt_login can end: URL left the login page; error banner;  *)
(* still on the login page without a banner; no captcha element; a         *)
(* PlaywrightTimeoutError; any other exception of the page driver          *)
AttemptOutcomes ==
    {"success", "banner", "inconclusive", "noCaptcha", "timeout", "error"}

(* _attempt_login returns True only on the URL change; "error" raises *)
AttemptReturnsTrue(outcome) == outcome = "success"

AttemptRaises(outcome) == outcome = "error"

(* slip: the loop stops one attempt early *)
LoopHasNext_short(n) == n + 1 < max_attempts

(* for attempt in range(max_attempts) *)
LoopHasNext(n) == n < max_attempts

(* main, step 1: cookie_str = get_cookie(); login only if it is falsy *)
Main_GetCookie ==
    /\ mainpc = "start"
    /\ \E ioOk \in IoResults :
          /\ cookie_str' = get_cookie(cookieFile, ioOk)
          /\ event' = Ev("get_cookie", 0, IF ioOk THEN "ok" ELSE "ioerror", 0)
    /\ mainpc' = IF Truthy(cookie_str') THEN "fetch" ELSE "login"
    /\ UNCHANGED << cookieFile, attempt, loginResult, nFailed, dbVars, poolVars,
                    envVars >>

(* login_and_save_cookie up to the loop: OCR engine and browser start; a   *)
(* failure here is outside the try block and ends the process              *)
Login_Launch ==
    /\ mainpc = "login"
    /\ \E ok \in BOOLEAN :
          /\ mainpc' = IF ok THEN "attempts" ELSE "crashed"
          /\ event' = Ev("launch", 0, IF ok THEN "ok" ELSE "error", 0)
    /\ nLogins' = nLogins + 1
    /\ UNCHANGED << sessionVars, dbVars, poolVars, roster, remote, disk,
                    runVars >>

(* slip: main goes on although login returned False *)
MainAfterLogin_ignores(ok) == "loggedin"

(* slip: main calls login again when it returned False *)
MainAfterLogin_retries(ok) == IF ok THEN "loggedin" ELSE "login"

(* what main does with the value login_and_save_cookie returned *)
MainAfterLogin(ok) == IF ok THEN "loggedin" ELSE "done"

(* one pass of the loop body: _attempt_login on a fresh page *)
Login_Attempt ==
    /\ mainpc = "attempts"
    /\ LoopHasNext(attempt)
    /\ attempt' = attempt + 1
    /\ \E outcome \in AttemptOutcomes, jar \in Jars, ioOk \in IoResults :
          /\ outcome # "success" => (jar = <<>> /\ ioOk)
          /\ event' = [Ev("attempt", 0, outcome, IF ioOk THEN 0 ELSE 1)
                          EXCEPT !.jar = jar]
          /\ IF AttemptReturnsTrue(outcome)
             THEN /\ cookieFile' = save_cookie(cookieFile, JoinCookies(jar), ioOk)
                  /\ loginResult' = "ok"
                  /\ mainpc' = MainAfterLogin(TRUE)
                  /\ UNCHANGED nFailed
             ELSE IF AttemptRaises(outcome)
             THEN /\ loginResult' = "fail"
                  /\ mainpc' = MainAfterLogin(FALSE)
                  /\ UNCHANGED << cookieFile, nFailed >>
             ELSE /\ nFailed' = nFailed + 1
                  /\ UNCHANGED << cookieFile, loginResult, mainpc >>
    /\ UNCHANGED << cookie_str, dbVars, poolVars, envVars >>

(* the loop ran out: "all attempts failed", return False *)
Login_Exhausted ==
    /\ mainpc = "attempts"
    /\ ~LoopHasNext(attempt)
    /\ loginResult' = "fail"
    /\ mainpc' = MainAfterLogin(FALSE)
    /\ event' = Ev("exhausted", 0, "none", 0)
    /\ UNCHANGED << cookieFile, cookie_str, attempt, nFailed, dbVars, poolVars,
                    envVars >>

(* main after a successful login: read the cookie back, stop if falsy *)
Main_Reload ==
    /\ mainpc = "loggedin"
    /\ \E ioOk \in IoResults :
          /\ cookie_str' = get_cookie(cookieFile, ioOk)
          /\ event' = Ev("get_cookie", 0, IF ioOk THEN "ok" ELSE "ioerror", 0)
    /\ mainpc' = IF Truthy(cookie_str') THEN "fetch" ELSE "done"
    /\ UNCHANGED << cookieFile, attempt, loginResult, nFailed, dbVars, poolVars,
                    envVars >>

(* slip: the pool is started without looking at the list *)
MainAfterFetch_noCheck(ts) == "pool"

(* if not tasks: return *)
MainAfterFetch(ts) == IF ts = <<>> THEN "done" ELSE "pool"

(* main, step 2: tasks = fetch_tasks(); any exception gives [] *)
Main_FetchTasks ==
    /\ mainpc = "fetch"
    /\ \E dbOk \in BOOLEAN :
          /\ tasks' = IF dbOk THEN fetch_rows(summary, roster) ELSE <<>>
          /\ event' = Ev("fetch_tasks", 0, IF dbOk THEN "ok" ELSE "storage", 0)
    /\ mainpc' = MainAfterFetch(tasks')
    /\ pc' = [t \in 1..Len(tasks') |-> "queued"]
    /\ ins' = [t \in 1..Len(tasks') |-> 0]
    /\ result' = [t \in 1..Len(tasks') |-> FALSE]
    /\ UNCHANGED << sessionVars, dbVars, tally, nFaults, envVars >>

(* ----------------------------- worker pool ----------------------------- *)
Tasks == 1..Len(tasks)

InFlight == {t \in Tasks : pc[t] \notin {"queued", "done"}}

Item(t) == tasks[t]

api_data(t) == remote[tasks[t].salesregid]

(* slip: the worker reads the cookie file again for its request *)
RequestCookie_rereads(captured, file) == get_cookie(file, TRUE).text

(* the Cookie header of a task's request: the string main passed to the    *)
(* pool's lambda, whatever the cookie file holds by now                    *)
RequestCookie(captured, file) == captured.text

(* process_single_task returns r for task t (the sleep before the return   *)
(* touches no state); faulted says the environment made this task fail     *)
Return(t, r, faulted) ==
    /\ pc' = [pc EXCEPT ![t] = "done"]
    /\ result' = [result EXCEPT ![t] = r]
    /\ nFaults' = IF faulted THEN nFaults + 1 ELSE nFaults

(* executor.map: a free worker thread takes a queued task *)
Task_Start(t) ==
    /\ mainpc = "pool"
    /\ pc[t] = "queued"
    /\ Cardinality(InFlight) < MAX_WORKERS
    /\ pc' = [pc EXCEPT ![t] = "post"]
    /\ event' = Ev("start", t, "none", 0)
    /\ UNCHANGED << mainpc, sessionVars, dbVars, tasks, ins, result, tally,
                    nFaults, envVars >>

(* what the portal can answer: no answer at all (timeout, connection       *)
(* error), or a status with a body that is not JSON or a JSON object with  *)
(* some of the keys total and rows                                         *)
Responses ==
    {[answered |-> FALSE, status |-> 0, json |-> FALSE, keys |-> {}]}
    \cup {[answered |-> TRUE, status |-> st, json |-> FALSE, keys |-> {}] :
             st \in {200, 500}}
    \cup {[answered |-> TRUE, status |-> st, json |-> TRUE, keys |-> ks] :
             st \in {200, 500}, ks \in SUBSET {"total", "rows"}}

(* the body as the portal sent it *)
BodyKind(resp) ==
    IF ~resp.answered THEN "none"
    ELSE IF ~resp.json THEN "notJson"
    ELSE IF resp.keys = {"total", "rows"} THEN "full"
    ELSE IF resp.keys = {"total"} THEN "noRows"
    ELSE IF resp.keys = {"rows"} THEN "noTotal"
    ELSE "neither"

(* response.raise_for_status() *)
RaiseForStatus(status) == status >= 400

(* slip: "and" for "or" in the shape test *)
ShapeMissing_both(keys) == "total" \notin keys /\ "rows" \notin keys

(* 'total' not in api_data or 'rows' not in api_data *)
ShapeMissing(keys) == "total" \notin keys \/ "rows" \notin keys

(* slip: the total compared with the number of rows received *)
TotalUnchanged_vsRowCount(snap, item) == snap.total = Len(snap.rows)

(* api_data['total'] == item['nTotalComplete'] *)
TotalUnchanged(snap, item) == snap.total = item.nTotalComplete

(* the branch sync_data takes on a response *)
Classify(resp, snap, item) ==
    IF ~resp.answered \/ RaiseForStatus(resp.status) THEN "RequestException"
    ELSE IF ~resp.json THEN "JSONDecodeError"
    ELSE IF ShapeMissing(resp.keys) THEN "malformed"
    ELSE IF TotalUnchanged(snap, item) THEN "skip"
    ELSE "apply"

(* slips: a handler that clears, or forgets to clear, the session file *)
OnRequestException_keeps(file) == file

OnDbError_clears(file) == clear_cookies(file)

(* the session file after each handler *)
OnRequestException(file) == clear_cookies(file)

OnMalformed(file) == clear_cookies(file)

OnDbError(file) == file

OnOtherException(file) == file

(* sync_data from requests.post to the comparison of the totals; whether   *)
(* the JSON decoder's error is a RequestException depends on the installed *)
(* requests version                                                        *)
Sync_Post(t) ==
    /\ mainpc = "pool"
    /\ pc[t] = "post"
    /\ \E resp \in Responses, newRequests \in BOOLEAN :
          LET branch == Classify(resp, api_data(t), Item(t)) IN
          /\ branch # "JSONDecodeError" => newRequests
          /\ event' = [Ev("post", t, BodyKind(resp), resp.status)
                          EXCEPT !.cookie = RequestCookie(cookie_str, cookieFile)]
          /\ CASE branch = "RequestException" ->
                    /\ cookieFile' = OnRequestException(cookieFile)
                    /\ Return(t, FALSE, TRUE)
               [] branch = "JSONDecodeError" ->
                    /\ cookieFile' = IF newRequests
                                     THEN OnRequestException(cookieFile)
                                     ELSE OnOtherException(cookieFile)
                    /\ Return(t, FALSE, TRUE)
               [] branch = "malformed" ->
                    /\ cookieFile' = OnMalformed(cookieFile)
                    /\ Return(t, FALSE, TRUE)
               [] branch = "skip" ->
                    /\ UNCHANGED cookieFile
                    /\ Return(t, TRUE, FALSE)
               [] branch = "apply" ->
                    /\ pc' = [pc EXCEPT ![t] = "connect"]
                    /\ UNCHANGED << cookieFile, result, nFaults >>
    /\ UNCHANGED << mainpc, cookie_str, attempt, loginResult, nFailed, dbVars,
                    tasks, ins, tally, envVars >>

(* with get_db_connection() as conn: pymssql.connect(autocommit=True) *)
Sync_Connect(t) ==
    /\ mainpc = "pool"
    /\ pc[t] = "connect"
    /\ \E ok \in BOOLEAN :
          /\ event' = Ev("connect", t, IF ok THEN "ok" ELSE "storage", 0)
          /\ IF ok
             THEN /\ pc' = [pc EXCEPT ![t] = "delete"]
                  /\ UNCHANGED << cookieFile, result, nFaults >>
             ELSE /\ cookieFile' = OnDbError(cookieFile)
                  /\ Return(t, FALSE, TRUE)
    /\ UNCHANGED << mainpc, cookie_str, attempt, loginResult, nFailed, dbVars,
                    tasks, ins, tally, envVars >>

(* delete_details; the connection autocommits, so the statement is durable *)
(* and visible as soon as it has run                                       *)
Sync_Delete(t) ==
    /\ mainpc = "pool"
    /\ pc[t] = "delete"
    /\ \E ok \in BOOLEAN :
          /\ event' = Ev("delete", t, IF ok THEN "ok" ELSE "storage", 0)
          /\ IF ok
             THEN /\ detail' = delete_details(detail, Item(t))
                  /\ pc' = [pc EXCEPT ![t] = "insert"]
                  /\ UNCHANGED << cookieFile, result, nFaults >>
             ELSE /\ cookieFile' = OnDbError(cookieFile)
                  /\ Return(t, FALSE, TRUE)
                  /\ UNCHANGED detail
    /\ UNCHANGED << mainpc, cookie_str, attempt, loginResult, nFailed, summary,
                    clock, tasks, ins, tally, envVars >>

(* insert_details: the parameter list is built first (a row without        *)
(* fullname or finish_time raises KeyError), an empty list returns at      *)
(* once, otherwise executemany runs one autocommitted INSERT per row       *)
Sync_Insert(t) ==
    /\ mainpc = "pool"
    /\ pc[t] = "insert"
    /\ LET rows == api_data(t).rows IN
       \E how \in {"ok", "storage", "keyerror"} :
          /\ how = "keyerror" => ins[t] = 0
          /\ how = "storage" => rows # <<>>
          /\ event' = Ev("insert", t, how, 0)
          /\ CASE how = "keyerror" ->
                    /\ cookieFile' = OnOtherException(cookieFile)
                    /\ Return(t, FALSE, TRUE)
                    /\ UNCHANGED << detail, ins >>
               [] how = "storage" ->
                    /\ cookieFile' = OnDbError(cookieFile)
                    /\ Return(t, FALSE, TRUE)
                    /\ UNCHANGED << detail, ins >>
               [] how = "ok" /\ rows = <<>> ->
                    /\ pc' = [pc EXCEPT ![t] = "update"]
                    /\ UNCHANGED << cookieFile, detail, ins, result, nFaults >>
               [] how = "ok" /\ rows # <<>> ->
                    /\ detail' = insert_one(detail, Item(t), rows[ins[t] + 1])
                    /\ ins' = [ins EXCEPT ![t] = ins[t] + 1]
                    /\ pc' = [pc EXCEPT ![t] =
                                 IF ins[t] + 1 = Len(rows) THEN "update" ELSE "insert"]
                    /\ UNCHANGED << cookieFile, result, nFaults >>
    /\ UNCHANGED << mainpc, cookie_str, attempt, loginResult, nFailed, summary,
                    clock, tasks, tally, envVars >>

(* update_summary, then the with blocks close and sync_data returns True *)
Sync_Update(t) ==
    /\ mainpc = "pool"
    /\ pc[t] = "update"
    /\ \E ok \in BOOLEAN :
          /\ event' = Ev("update", t, IF ok THEN "ok" ELSE "storage", 0)
          /\ IF ok
             THEN /\ summary' = update_summary(summary, Item(t), api_data(t).total,
                                               clock + 1)
                  /\ clock' = clock + 1
                  /\ Return(t, TRUE, FALSE)
                  /\ UNCHANGED cookieFile
             ELSE /\ cookieFile' = OnDbError(cookieFile)
                  /\ Return(t, FALSE, TRUE)
                  /\ UNCHANGED << summary, clock >>
    /\ UNCHANGED << mainpc, cookie_str, attempt, loginResult, nFailed, detail,
                    tasks, ins, tally, envVars >>

(* slip: the count stops at the first failed task *)
RECURSIVE SumTrue_untilFailure(_)
SumTrue_untilFailure(rs) ==
    IF rs = <<>> \/ ~Head(rs) THEN 0
    ELSE 1 + SumTrue_untilFailure(Tail(rs))

(* sum(results) *)
RECURSIVE SumTrue(_)
SumTrue(rs) ==
    IF rs = <<>> THEN 0
    ELSE (IF Head(rs) THEN 1 ELSE 0) + SumTrue(Tail(rs))

(* main, step 3: the pool has drained; success_count = sum(results) *)
Main_Tally ==
    /\ mainpc = "pool"
    /\ \A t \in Tasks : pc[t] = "done"
    /\ tally' = << SumTrue(result), Len(tasks) >>
    /\ mainpc' = "done"
    /\ event' = Ev("tally", 0, "none", 0)
    /\ UNCHANGED << sessionVars, dbVars, tasks, pc, ins, result, nFaults,
                    envVars >>

(* the process has ended and the job is invoked again: a new main() over   *)
(* the cookie file and the tables as the last run left them                *)
Main_Rerun ==
    /\ mainpc \in {"done", "crashed"}
    /\ runsLeft > 0
    /\ runsLeft' = runsLeft - 1
    /\ prevStart' = runStart
    /\ prevResult' = result
    /\ runStart' = Tables
    /\ mainpc' = "start"
    /\ cookie_str' = None
    /\ attempt' = 0
    /\ loginResult' = "none"
    /\ nFailed' = 0
    /\ nLogins' = 0
    /\ tasks' = <<>>
    /\ pc' = <<>>
    /\ ins' = <<>>
    /\ result' = <<>>
    /\ tally' = <<>>
    /\ nFaults' = 0
    /\ event' = Ev("rerun", 0, "none", 0)
    /\ UNCHANGED << cookieFile, dbVars, roster, remote, disk >>

(* --------------------------- specification ----------------------------- *)
Next ==
    \/ Main_GetCookie
    \/ Login_Launch
    \/ Login_Attempt
    \/ Login_Exhausted
    \/ Main_Reload
    \/ Main_FetchTasks
    \/ \E t \in Tasks : Task_Start(t)
    \/ \E t \in Tasks : Sync_Post(t)
    \/ \E t \in Tasks : Sync_Connect(t)
    \/ \E t \in Tasks : Sync_Delete(t)
    \/ \E t \in Tasks : Sync_Insert(t)
    \/ \E t \in Tasks : Sync_Update(t)
    \/ Main_Tally
    \/ Main_Rerun

Spec == Init /\ [][Next]_vars

(* every blocking call has a timeout and the pool's threads keep running,  *)
(* so an enabled step is eventually taken                                  *)
FairSpec == Spec /\ WF_vars(Next)

(* ------------------------------ properties ----------------------------- *)
StepOf(t) == tasks' = tasks /\ (pc[t] # pc'[t] \/ ins[t] # ins'[t])

OthersUntouched(t) ==
    \A u \in Tasks \ {t} : pc'[u] = pc[u] /\ result'[u] = result[u]

RECURSIVE InsertAll(_, _, _)
InsertAll(dt, item, rows) ==
    IF rows = <<>> THEN dt
    ELSE InsertAll(insert_one(dt, item, Head(rows)), item, Tail(rows))

(* C1: the delete, the inserts and the summary update of one sync become   *)
(* visible together: every step of a task that changes the tables applies  *)
(* the whole replacement at once, so no partial application is observable  *)
C1_AtomicApply ==
    [][\A t \in Tasks :
          (StepOf(t) /\ << detail, summary >>' # << detail, summary >>)
          => /\ detail' = InsertAll(delete_details(detail, Item(t)), Item(t),
                                    api_data(t).rows)
             /\ summary' = update_summary(summary, Item(t), api_data(t).total,
                                          clock')]_vars

(* the rows of the task's entity whose timestamp lies in its date window,  *)
(* the first hour of windowStart through the last hour of windowEnd        *)
InWindow(r, item) ==
    /\ r.cInsuLicense = item.salesregid
    /\ ToEpoch(r.dChgDate) >= item.finish_start_date
    /\ ToEpoch(r.dChgDate) <= item.finish_end_date

WindowRows(dt, item) ==
    [r \in {x \in DOMAIN dt : InWindow(x, item)} |-> dt[r]]

Alone(t) ==
    \A u \in Tasks \ {t} : tasks[u].salesregid # tasks[t].salesregid

(* C2: when a sync of a changed total returns success (no other task of    *)
(* the run works on the same entity), the detail rows of its entity and    *)
(* window are exactly the rows of the remote list                          *)
C2_FullyReplacing ==
    [][\A t \in Tasks :
          (Alone(t) /\ pc[t] = "update" /\ pc'[t] = "done" /\ result'[t])
          => WindowRows(detail', Item(t))
               = InsertAll(EmptyBag, Item(t), api_data(t).rows)]_vars

WellFormedPost(t) ==
    /\ pc[t] = "post"
    /\ event'.op = "post" /\ event'.task = t
    /\ event'.kind = "full" /\ event'.status = 200

(* C3: a well-formed answer whose total equals the task's nTotalComplete   *)
(* makes sync_data return True without touching the tables or the cookie   *)
(* file                                                                    *)
C3_UnchangedTotalNoWrite ==
    [][\A t \in Tasks :
          (WellFormedPost(t) /\ api_data(t).total = Item(t).nTotalComplete)
          => /\ UNCHANGED << summary, detail, clock, cookieFile >>
             /\ pc'[t] = "done" /\ result'[t] = TRUE
             /\ OthersUntouched(t)]_vars

C3_Witness ==
    \E t \in Tasks :
        /\ event.op = "post" /\ event.task = t /\ event.kind = "full"
        /\ api_data(t).total = Item(t).nTotalComplete
        /\ pc[t] = "done" /\ result[t]

C5_StorageFaultContained ==
    [][\A t \in Tasks :
          ( /\ event'.op \in {"connect", "delete", "insert", "update"}
            /\ event'.task = t /\ event'.kind = "storage" /\ StepOf(t) )
          => /\ cookieFile' = cookieFile
             /\ pc'[t] = "done" /\ result'[t] = FALSE
             /\ OthersUntouched(t)]_vars

C5_Witness ==
    \E t \in Tasks :
        /\ event.op = "insert" /\ event.task = t /\ event.kind = "storage"
        /\ cookieFile.exists
        /\ pc[t] = "done" /\ ~result[t]
        /\ \E u \in Tasks \ {t} : pc[u] = "done" /\ result[u]

TransportFailure(t) ==
    /\ pc[t] = "post"
    /\ event'.op = "post" /\ event'.task = t
    /\ (event'.kind = "none" \/ event'.status >= 400)

C7_TallyCountsAll ==
    tally # <<>>
    => /\ \A t \in Tasks : pc[t] = "done"
       /\ tally[2] = Len(tasks)
       /\ tally[1] = Len(tasks) - nFaults

C7_Witness ==
    /\ tally # <<>>
    /\ Len(tasks) = 2 /\ nFaults = 1 /\ tally = << 1, 2 >>
    /\ result = << FALSE, TRUE >>

(* C8: once login has failed, main is over: no task list is fetched, no    *)
(* task is started and no table is written                                 *)
C8_FailedLoginEndsRun ==
    [][loginResult' = "fail"
       => /\ mainpc' = "done"
          /\ tasks' = <<>> /\ pc' = <<>> /\ tally' = <<>>
          /\ UNCHANGED << summary, detail, clock >>]_vars

C8_Witness ==
    loginResult = "fail" /\ attempt = max_attempts /\ mainpc = "done"

(* C9: when every attempt returns False, login gives up after exactly      *)
(* max_attempts attempts, and the cookie file is not written by any step   *)
(* of a login that does not succeed                                        *)
C9_AlwaysFailingExhausts ==
    /\ [](loginResult = "fail" /\ nFailed = attempt => attempt = max_attempts)
    /\ [](mainpc = "attempts" /\ nFailed = attempt /\ attempt < max_attempts
          => loginResult = "none")
    /\ [][(mainpc \in {"login", "attempts"} /\ loginResult' # "ok")
          => (cookieFile' = cookieFile)]_vars

C9_Witness ==
    /\ loginResult = "fail" /\ nFailed = max_attempts /\ attempt = max_attempts
    /\ ~cookieFile.exists

(* the text is name=value for each cookie in order, "; " between them *)
SerializedAs(text, jar) ==
    /\ Len(text) = (IF jar = <<>> THEN 0 ELSE 4 * Len(jar) - 1)
    /\ \A i \in 1..Len(jar) :
          /\ text[4 * i - 3] = jar[i].name
          /\ text[4 * i - 2] = "="
          /\ text[4 * i - 1] = jar[i].value
          /\ i < Len(jar) => text[4 * i] = "; "

(* C10: the attempt that leaves the login page writes the joined cookies   *)
(* to the cookie file and makes login return True at once; it is the first *)
(* attempt that did not fail, and no attempt follows it                    *)
C10_SuccessSavesAndReturns ==
    /\ [][(event'.op = "attempt" /\ event'.kind = "success"
           /\ mainpc = "attempts")
          => /\ loginResult' = "ok"
             /\ attempt' = nFailed + 1
             /\ event'.status = 0
                => (cookieFile'.exists
                    /\ SerializedAs(cookieFile'.text, event'.jar))]_vars
    /\ [][(loginResult = "ok" /\ runsLeft' = runsLeft)
          => (attempt' = attempt /\ loginResult' = "ok")]_vars

C10_Witness ==
    /\ loginResult = "ok" /\ attempt = 1 /\ nFailed = 0
    /\ cookieFile = [exists |-> TRUE,
                     text |-> <<"sid", "=", "x", "; ", "tok", "=", "y">>]

(* C11: login reports failure only after max_attempts attempts have been   *)
(* made: whatever way an attempt fails, it ends that attempt only and the  *)
(* loop goes on                                                            *)
C11_FailureOnlyAfterExhaustion ==
    loginResult = "fail" => attempt = max_attempts

(* C12 as stated: a call for a task that follows a successful call for     *)
(* the same task, the portal's data unchanged, is a no-op: on a            *)
(* well-formed answer it returns True without going on to the database     *)
C12_SecondCallNoOp ==
    [][\A t \in Tasks :
          ( /\ WellFormedPost(t)
            /\ \E u \in Tasks \ {t} :
                  tasks[u] = tasks[t] /\ pc[u] = "done" /\ result[u] )
          => (pc'[t] = "done" /\ result'[t])]_vars

(* a run that follows a run in which the one task was synced successfully *)
AfterSuccessfulRun == prevResult = << TRUE >>

(* C12 as amended: in the run after a successful sync, fetch_tasks reads   *)
(* the total the first call stored, so a second call for the task is a     *)
(* no-op that returns True, and the tables stay as the first call left     *)
(* them                                                                    *)
C12_RerunIsNoOp ==
    /\ [](AfterSuccessfulRun
          => summary = runStart.summary /\ detail = runStart.detail)
    /\ [][\A t \in Tasks :
             (AfterSuccessfulRun /\ WellFormedPost(t))
             => (pc'[t] = "done" /\ result'[t])]_vars

C12_Witness ==
    /\ AfterSuccessfulRun
    /\ prevStart.summary["A"].nTotalComplete # remote["A"].total
    /\ remote["A"].rows # <<>>
    /\ \E t \in Tasks :
          /\ event.op = "post" /\ event.task = t /\ event.kind = "full"
          /\ pc[t] = "done" /\ result[t]

(* C13: a sync of a changed total that succeeds in the run after a failed  *)
(* attempt for the same task leaves the detail rows and the summary total  *)
(* a sync without the failed attempt would have left                       *)
C13_RetryEqualsCleanSync ==
    \A t \in Tasks :
        ( /\ prevResult = << FALSE >>
          /\ Item(t) = TaskOf(Item(t).salesregid,
                              prevStart.summary[Item(t).salesregid])
          /\ ~TotalUnchanged(api_data(t), Item(t))
          /\ pc[t] = "done" /\ result[t] )
        => /\ detail = InsertAll(delete_details(prevStart.detail, Item(t)),
                                 Item(t), api_data(t).rows)
           /\ summary[Item(t).salesregid].nTotalComplete = api_data(t).total

(* C14: a run makes at most one login call, only when the cookie loaded at *)
(* the start is falsy and before any task exists; once the task list has   *)
(* been fetched no login is made in that run, whatever the workers do to   *)
(* the cookie file                                                         *)
C14_AtMostOneLogin ==
    /\ [](nLogins <= 1)
    /\ [][nLogins' > nLogins
          => (~(cookie_str.some /\ cookie_str.text # <<>>)
              /\ tasks = <<>> /\ pc = <<>>)]_vars
    /\ [](pc # <<>> => mainpc \notin {"login", "attempts", "loggedin"})
    /\ [][(mainpc \in {"fetch", "pool"} \/ pc # <<>>)
          => (nLogins' = nLogins \/ runsLeft' # runsLeft)]_vars

C14_Witness ==
    /\ nLogins = 1 /\ loginResult = "ok"
    /\ mainpc = "done" /\ tally # <<>>
    /\ result = << FALSE >> /\ ~cookieFile.exists

(* C15: a storage error in fetch_tasks gives the empty list: main ends     *)
(* there, with no task, no pool and no tally, and the cookie file and the  *)
(* tables are as they were                                                 *)
C15_FetchErrorEndsRun ==
    [][(event'.op = "fetch_tasks" /\ event'.kind = "storage")
       => /\ tasks' = <<>> /\ pc' = <<>> /\ tally' = <<>>
          /\ mainpc' = "done"
          /\ UNCHANGED << cookieFile, cookie_str, summary, detail, clock >>]_vars

C15_Witness ==
    /\ event.op = "fetch_tasks" /\ event.kind = "storage"
    /\ mainpc = "done" /\ tasks = <<>>
    /\ cookieFile.exists
    /\ fetch_rows(summary, roster) # <<>>

(* C16: every request of the pass carries the cookie string main loaded    *)
(* before the pool started, also after a sibling has removed the cookie    *)
(* file; during the pass the file is only ever removed, and once removed   *)
(* it stays absent to the end of the run                                   *)
C16_CapturedCredential ==
    /\ [][\A t \in Tasks :
             (pc[t] = "post" /\ pc'[t] # "post")
             => (event'.op = "post" /\ event'.cookie = cookie_str.text)]_vars
    /\ [][pc # <<>> => (cookie_str' = cookie_str \/ runsLeft' # runsLeft)]_vars
    /\ [][pc # <<>> => (cookieFile' = cookieFile \/ ~cookieFile'.exists)]_vars
    /\ [][(pc # <<>> /\ ~cookieFile.exists) => ~cookieFile'.exists]_vars

C16_Witness ==
    /\ ~cookieFile.exists
    /\ \E t \in Tasks, u \in Tasks :
          /\ t # u
          /\ pc[u] = "done" /\ ~result[u]
          /\ event.op = "post" /\ event.task = t
          /\ event.kind = "full" /\ event.status = 200
          /\ event.cookie = cookie_str.text /\ event.cookie # <<>>

(* C17: tasks are fetched and run only under a non-empty cookie string;    *)
(* when login returned True but the string read back is None or empty,     *)
(* main ends without fetching or running a task                            *)
C17_NonEmptyCredential ==
    /\ []((mainpc \in {"fetch", "pool"} \/ pc # <<>>)
          => (cookie_str.some /\ cookie_str.text # <<>>))
    /\ [][event'.op = "post" => event'.cookie # <<>>]_vars
    /\ [][(mainpc = "loggedin"
           /\ ~(cookie_str'.some /\ cookie_str'.text # <<>>))
          => (mainpc' = "done" /\ tasks' = <<>> /\ pc' = <<>>)]_vars

C17_Witness ==
    /\ loginResult = "ok" /\ mainpc = "done"
    /\ event.op = "get_cookie"
    /\ cookie_str = Some(<<>>)
    /\ tasks = <<>>

(* a task whose call found a changed total and returned True *)
Applied(t) ==
    pc[t] = "done" /\ result[t] /\ ~TotalUnchanged(api_data(t), Item(t))

(* C18: in every reachable state, a summary total that a sync of a changed *)
(* total has set to the remote total stands for a finished replacement:    *)
(* the detail rows of that entity and window are the snapshot's rows       *)
C18_TotalImpliesReplaced ==
    \A t \in Tasks :
        ( /\ Applied(t)
          /\ summary[Item(t).salesregid].nTotalComplete = api_data(t).total )
        => WindowRows(detail, Item(t))
             = InsertAll(EmptyBag, Item(t), api_data(t).rows)

(* the rows of the table that belong to entity e *)
EntityRows(dt, e) ==
    [r \in {x \in DOMAIN dt : x.cInsuLicense = e} |-> dt[r]]

(* sync_data for one task, run on its own from tables tb *)
SyncAlone(tb, item, snap) ==
    IF TotalUnchanged(snap, item) THEN tb
    ELSE [summary |-> update_summary(tb.summary, item, snap.total, 0),
          detail  |-> InsertAll(delete_details(tb.detail, item), item, snap.rows)]

(* C19: a step of a task changes detail rows and the summary row of its    *)
(* own entity only; so with pairwise distinct entities a task that         *)
(* returned True leaves its entity's rows and total as a run of that task  *)
(* alone from the tables at the start would, whatever the other workers    *)
(* did in between                                                          *)
C19_DistinctEntitiesIndependent ==
    /\ [][\A t \in Tasks :
             StepOf(t)
             => /\ \A e \in Entities \ {Item(t).salesregid} :
                      /\ summary'[e] = summary[e]
                      /\ EntityRows(detail', e) = EntityRows(detail, e)]_vars
    /\ [](\A t \in Tasks :
             (Alone(t) /\ pc[t] = "done" /\ result[t])
             => LET e == Item(t).salesregid
                    alone == SyncAlone(runStart, Item(t), api_data(t))
                IN  /\ EntityRows(detail, e) = EntityRows(alone.detail, e)
                    /\ summary[e].nTotalComplete
                         = alone.summary[e].nTotalComplete)

C19_Witness ==
    /\ mainpc = "done" /\ Len(tasks) = 2
    /\ tasks[1].salesregid # tasks[2].salesregid
    /\ Applied(1) /\ Applied(2)
    /\ clock = 2
    /\ EntityRows(detail, "A") # EntityRows(runStart.detail, "A")
    /\ EntityRows(detail, "B") # EntityRows(runStart.detail, "B")

(* the rows of the table that the task's DELETE statement covers *)
DeleteRange(dt, item) ==
    [r \in {x \in DOMAIN dt : DeleteMatches(x, item)} |-> dt[r]]

(* C20: when the task list holds an entity and window twice and both       *)
(* calls found a changed total and returned True, the table holds one copy *)
(* of the remote rows (looked at in the range the DELETE covers)           *)
C20_DuplicateTasksOneCopy ==
    \A t \in Tasks, u \in Tasks :
        (t # u /\ tasks[t] = tasks[u] /\ Applied(t) /\ Applied(u))
        => DeleteRange(detail, Item(t))
             = DeleteRange(InsertAll(EmptyBag, Item(t), api_data(t).rows),
                           Item(t))
====
